---- MODULE Spec2Model ----
(***************************************************************************)
(* A model of the configuration stores of advanced-configuration-management *)
(* The repository holds five versions of the store:                        *)
(*   "plain"   EasyConfiguration over a plain record     (unnamed/part_000) *)
(*   "flags"   EasyConfiguration over Map<string,unknown> with two flags    *)
(*                                              (unnamed/part_002:144-267) *)
(*   "entries" EasyConfiguration over Map<string,IConfigurationEntry>       *)
(*                          (src/index.ts, same as unnamed/part_002:269-433)*)
(*   "strict"  AdvancedConfigurationManagement with SetupError              *)
(*                                                      (unnamed/part_001) *)
(*   "lenient" AdvancedConfigurationManagement without setup checks         *)
(*                                                (unnamed/part_002:1-142) *)
(* A caller builds two stores from one specification object, then reads    *)
(* and writes store 1, reads store 2, and may mutate the objects it holds:  *)
(* the specification object and the last snapshot getConfig() returned.    *)
(***************************************************************************)
EXTENDS Naturals, Sequences, FiniteSets, TLC

VARIABLES
    variant,   \* which version of the class the two stores are instances of
    flags,     \* the store-wide options captured by the constructor
    specObj,   \* the caller's specification object (name -> item)
    seeded,    \* the names the specification object held at construction
    built,     \* how construction ended: "ok" or the error it threw
    conf,      \* conf[s]: the private Map of store s (unused by "plain")
    last,      \* the last call the caller made and how it ended
    snap,      \* the object the last getConfig() returned, held by the caller
    dirty      \* a write reached store 1 since that getConfig()

vars == <<variant, flags, specObj, seeded, built, conf, last, snap, dirty>>

(***************************************************************************)
(* Bounds                                                                  *)
(***************************************************************************)
\* the longest mapping handed to the bulk form of setConfig
MaxBulkLen == 2

(***************************************************************************)
(* Values and their runtime kind                                           *)
(***************************************************************************)
Variants == {"plain", "flags", "entries", "strict", "lenient"}
Stores == {1, 2}

\* property names: two ordinary ones and one every object inherits
Names == {"a", "b", "toString"}
\* the members Object.prototype gives every plain object
Inherited == {"toString"}
\* the value found under an inherited name
ProtoValue(n) == "fn"

\* the values of the model, each a token for one JavaScript value; "fn" is
\* a function and "obj" an object
Val == {"undefined", "false", "true", "2", "''", "'str'", "sym", "fn", "obj"}
\* a field that an entry of this version does not have
Absent == "<absent>"

\* typeof
TypeOf(v) ==
    CASE v = "undefined" -> "undefined"
      [] v \in {"true", "false"} -> "boolean"
      [] v = "2" -> "number"
      [] v \in {"''", "'str'"} -> "string"
      [] v = "sym" -> "symbol"
      [] v = "fn" -> "function"
      [] OTHER -> "object"

\* Array.prototype.includes
Includes(arr, x) == \E i \in 1..Len(arr) : arr[i] = x

\* the conversion a template literal applies to an interpolated value:
\* it throws a TypeError on a symbol and yields a string otherwise
TemplateThrows(v) == TypeOf(v) = "symbol"

(***************************************************************************)
(* Validators: the functions a descriptor may carry                        *)
(***************************************************************************)
\* what calling the validator on v does: "truthy", "falsy" or "raise"
\*   "lenPositive" is the README's (value) => value.length > 0
\*   "passAll"     is the default () => true of the lenient version
CallValidator(f, v) ==
    CASE f = "passAll" -> "truthy"
      [] f = "lenPositive" ->
            IF v = "undefined" THEN "raise"
            ELSE IF v = "'str'" THEN "truthy"
            ELSE "falsy"

\* typeof validator === 'function'
IsFunction(f) == f \in {"lenPositive", "passAll"}
\* the truthiness of a validator field
ValidatorTruthy(f) == f \in {"lenPositive", "passAll", "'v'"}

(***************************************************************************)
(* Results of a call                                                       *)
(***************************************************************************)
Ret(v) == [t |-> "ret", v |-> v]
\* what the message of each error the classes construct identifies: the
\* property name, the expected types, the offending value, or for SetupError
\* the descriptor field ('types' or 'validator') and the reason
MessageOf(e) ==
    CASE e = "ReferenceError" -> {"property"}
      [] e = "TypeError" -> {"property", "types"}
      [] e \in {"ValidationError", "EvalError"} -> {"value"}
      [] e = "SetupError" -> {"field", "reason"}
Throw(e) == [t |-> "throw", v |-> e, msg |-> MessageOf(e)]
\* the TypeError the engine raises when a symbol is converted to a string
ConversionError == [t |-> "throw", v |-> "TypeError", msg |-> {}]
Void == Ret("undefined")

(***************************************************************************)
(* The caller's specification object: name -> item, an item being a raw    *)
(* value or a descriptor {value, types?, default?, validator?}             *)
(***************************************************************************)
\* the types field of a descriptor: not given, an array, or something else
NoTypes == [tag |-> "absent", elems |-> <<>>]
TypesArray(elems) == [tag |-> "array", elems |-> elems]
\* a types field holding a value that is no array: the string 'string', or null
TypesValue(tok) == [tag |-> tok, elems |-> <<>>]

Raw(v) ==
    [raw |-> TRUE, hasValue |-> FALSE, value |-> v, types |-> NoTypes,
     hasDefault |-> FALSE, default |-> Absent, validator |-> "undefined"]
Descriptor(v, types, validator) ==
    [raw |-> FALSE, hasValue |-> TRUE, value |-> v, types |-> types,
     hasDefault |-> FALSE, default |-> Absent, validator |-> validator]
WithDefault(item, d) == [item EXCEPT !.hasDefault = TRUE, !.default = d]
\* an object that has no value field, such as {types: [...]}
Fields(types, validator) ==
    [raw |-> FALSE, hasValue |-> FALSE, value |-> "undefined", types |-> types,
     hasDefault |-> FALSE, default |-> Absent, validator |-> validator]

\* the item itself, taken as a value
ItemAsValue(item) == IF item.raw THEN item.value ELSE "obj"
\* Array.isArray(types)
IsArray(types) == types.tag = "array"
\* the truthiness of a types field
TypesTruthy(types) == types.tag \in {"array", "'string'"}
\* types.every((type) => typeof type === 'string'); "<5>" is a number element
EveryString(elems) == \A i \in 1..Len(elems) : elems[i] # "<5>"

(***************************************************************************)
(* Entries of a store                                                      *)
(***************************************************************************)
Entry(types, default, value, validator) ==
    [types |-> types, default |-> default, value |-> value, validator |-> validator]
\* the versions that store bare values have no entry around the value
RawEntry(v) == Entry(<<>>, Absent, v, Absent)

EmptyMap == [n \in {} |-> RawEntry("undefined")]
\* Map.prototype.set, and the assignment obj[key] = value
Put(c, n, e) == [k \in DOMAIN c \cup {n} |-> IF k = n THEN e ELSE c[k]]

(***************************************************************************)
(* Constructors                                                            *)
(***************************************************************************)
\* EntriesSeed taking the value as the default whatever the descriptor declares
EntriesSeed_ValueAsDefault(item) ==
    IF ~item.raw /\ item.hasValue
    THEN Entry(IF IsArray(item.types) THEN item.types.elems
                                      ELSE <<TypeOf(item.value)>>,
               item.value, item.value, Absent)
    ELSE Entry(<<TypeOf(ItemAsValue(item))>>, ItemAsValue(item),
               ItemAsValue(item), Absent)

\* src/index.ts:37-59: the entry one item of the specification becomes
EntriesSeed(item) ==
    IF ~item.raw /\ item.hasValue
    THEN Entry(IF IsArray(item.types) THEN item.types.elems
                                      ELSE <<TypeOf(item.value)>>,
               IF item.hasDefault THEN item.default ELSE item.value,
               item.value, Absent)
    ELSE Entry(<<TypeOf(ItemAsValue(item))>>, ItemAsValue(item),
               ItemAsValue(item), Absent)

\* const { types, value, validator } = entry: a primitive has none of the three
FieldValue(item) == IF ~item.raw /\ item.hasValue THEN item.value ELSE "undefined"
FieldTypes(item) == IF item.raw THEN NoTypes ELSE item.types
FieldValidator(item) == IF item.raw THEN "undefined" ELSE item.validator
\* destructuring undefined throws a TypeError
DestructureThrows(item) == item.raw /\ item.value = "undefined"

\* unnamed/part_002:22-31
LenientSeed(item) ==
    Entry(IF IsArray(FieldTypes(item)) THEN FieldTypes(item).elems
                                       ELSE <<TypeOf(FieldValue(item))>>,
          Absent, FieldValue(item),
          IF IsFunction(FieldValidator(item)) THEN FieldValidator(item)
                                              ELSE "passAll")

\* unnamed/part_001:30-43 and 45-57: whether the item makes the constructor throw
StrictTypesError(item) ==
    /\ TypesTruthy(FieldTypes(item))
    /\ \/ ~IsArray(FieldTypes(item))
       \/ ~EveryString(FieldTypes(item).elems)
       \/ ~Includes(FieldTypes(item).elems, TypeOf(FieldValue(item)))
StrictValidatorError(item) ==
    ValidatorTruthy(FieldValidator(item)) /\ ~IsFunction(FieldValidator(item))
\* unnamed/part_001:24-61
StrictSeed(item) ==
    Entry(IF TypesTruthy(FieldTypes(item)) THEN FieldTypes(item).elems
                                           ELSE <<TypeOf(FieldValue(item))>>,
          Absent, FieldValue(item),
          IF ValidatorTruthy(FieldValidator(item)) THEN FieldValidator(item)
                                                   ELSE "undefined")

\* how the constructor of version v ends on the specification spec
ConstructStatus(v, spec) ==
    IF v \in {"strict", "lenient"} /\ \E n \in DOMAIN spec : DestructureThrows(spec[n])
    THEN "TypeError"
    ELSE IF v = "strict" /\ \E n \in DOMAIN spec :
                               StrictTypesError(spec[n]) \/ StrictValidatorError(spec[n])
    THEN "SetupError"
    ELSE "ok"

\* the Map the constructor of version v fills from spec; "plain" has no Map,
\* it keeps the specification object itself (unnamed/part_000:4-6)
Construct(v, spec) ==
    IF ConstructStatus(v, spec) # "ok" \/ v = "plain" THEN EmptyMap
    ELSE [n \in DOMAIN spec |->
            CASE v = "flags" -> RawEntry(ItemAsValue(spec[n]))
              [] v = "entries" -> EntriesSeed(spec[n])
              [] v = "lenient" -> LenientSeed(spec[n])
              [] v = "strict" -> StrictSeed(spec[n])]

(***************************************************************************)
(* The mapping a store reads and writes                                    *)
(***************************************************************************)
\* the plain record of "plain" is the caller's specification object itself
RecordOf(spec) == [n \in DOMAIN spec |-> RawEntry(ItemAsValue(spec[n]))]
Store(s) == IF variant = "plain" THEN RecordOf(specObj) ELSE conf[s]

\* Map.prototype.has; for "plain" the in operator, which also finds what the
\* record inherits (unnamed/part_000:41 and 84)
Has(c, n) ==
    IF variant = "plain" THEN n \in DOMAIN c \/ n \in Inherited
    ELSE n \in DOMAIN c
\* Map.prototype.get(n).value; for "plain" the member access obj[n]
ValueAt(c, n) == IF n \in DOMAIN c THEN c[n].value ELSE ProtoValue(n)

\* the accepted types of a known property: the entry's types, or for the
\* versions without entries the type of the current value
ExpectedTypes(c, n) ==
    IF variant \in {"plain", "flags"} THEN <<TypeOf(ValueAt(c, n))>>
    ELSE c[n].types

(***************************************************************************)
(* setConfig(property, value): the result and the mapping it leaves        *)
(***************************************************************************)
Outcome(res, c) == [res |-> res, conf |-> c]

\* unnamed/part_000:40-55
setConfigPlain(c, n, v) ==
    IF ~Has(c, n) THEN Outcome(Throw("ReferenceError"), c)
    ELSE IF TypeOf(v) # TypeOf(ValueAt(c, n)) THEN Outcome(Throw("TypeError"), c)
    ELSE Outcome(Void, Put(c, n, RawEntry(v)))

\* setConfigFlags checking the type whatever allowDifferentTypeOnConfig says
setConfigFlags_AlwaysChecks(c, n, v) ==
    IF ~Has(c, n)
    THEN IF ~flags.add THEN Outcome(Throw("ReferenceError"), c)
         ELSE Outcome(Void, Put(c, n, RawEntry(v)))
    ELSE IF TypeOf(v) # TypeOf(ValueAt(c, n))
         THEN Outcome(Throw("TypeError"), c)
         ELSE Outcome(Void, Put(c, n, RawEntry(v)))

\* setConfigFlags adding unknown properties whatever addPropertiesToConfigAllowed says
setConfigFlags_AddsUnknown(c, n, v) ==
    IF ~Has(c, n)
    THEN Outcome(Void, Put(c, n, RawEntry(v)))
    ELSE IF TypeOf(v) # TypeOf(ValueAt(c, n)) /\ ~flags.diff
         THEN Outcome(Throw("TypeError"), c)
         ELSE Outcome(Void, Put(c, n, RawEntry(v)))

\* unnamed/part_002:207-224
setConfigFlags(c, n, v) ==
    IF ~Has(c, n)
    THEN IF ~flags.add THEN Outcome(Throw("ReferenceError"), c)
         ELSE Outcome(Void, Put(c, n, RawEntry(v)))
    ELSE IF TypeOf(v) # TypeOf(ValueAt(c, n)) /\ ~flags.diff
         THEN Outcome(Throw("TypeError"), c)
         ELSE Outcome(Void, Put(c, n, RawEntry(v)))

\* setConfigEntries without the Map update of a known property
setConfigEntries_NoUpdate(c, n, v) ==
    IF ~Has(c, n)
    THEN IF ~flags.add THEN Outcome(Throw("ReferenceError"), c)
         ELSE Outcome(Void, Put(c, n, Entry(<<TypeOf(v)>>, v, v, Absent)))
    ELSE IF ~Includes(ExpectedTypes(c, n), TypeOf(v))
         THEN Outcome(Throw("TypeError"), c)
         ELSE Outcome(Void, c)

\* setConfigEntries comparing the value's type with the first accepted type only
setConfigEntries_FirstTypeOnly(c, n, v) ==
    IF ~Has(c, n)
    THEN IF ~flags.add THEN Outcome(Throw("ReferenceError"), c)
         ELSE Outcome(Void, Put(c, n, Entry(<<TypeOf(v)>>, v, v, Absent)))
    ELSE IF ExpectedTypes(c, n) = <<>> \/ ExpectedTypes(c, n)[1] # TypeOf(v)
         THEN Outcome(Throw("TypeError"), c)
         ELSE Outcome(Void, Put(c, n, [c[n] EXCEPT !.value = v]))

\* setConfigEntries adding unknown properties whatever the option says
setConfigEntries_AlwaysAdds(c, n, v) ==
    IF ~Has(c, n)
    THEN Outcome(Void, Put(c, n, Entry(<<TypeOf(v)>>, v, v, Absent)))
    ELSE IF ~Includes(ExpectedTypes(c, n), TypeOf(v))
         THEN Outcome(Throw("TypeError"), c)
         ELSE Outcome(Void, Put(c, n, [c[n] EXCEPT !.value = v]))

\* setConfigEntries replacing the entry of a known property by a fresh one
setConfigEntries_FreshEntry(c, n, v) ==
    IF ~Has(c, n)
    THEN IF ~flags.add THEN Outcome(Throw("ReferenceError"), c)
         ELSE Outcome(Void, Put(c, n, Entry(<<TypeOf(v)>>, v, v, Absent)))
    ELSE IF ~Includes(ExpectedTypes(c, n), TypeOf(v))
         THEN Outcome(Throw("TypeError"), c)
         ELSE Outcome(Void, Put(c, n, Entry(<<TypeOf(v)>>, v, v, Absent)))

\* src/index.ts:95-126
setConfigEntries(c, n, v) ==
    IF ~Has(c, n)
    THEN IF ~flags.add THEN Outcome(Throw("ReferenceError"), c)
         ELSE Outcome(Void, Put(c, n, Entry(<<TypeOf(v)>>, v, v, Absent)))
    ELSE IF ~Includes(ExpectedTypes(c, n), TypeOf(v))
         THEN Outcome(Throw("TypeError"), c)
         ELSE Outcome(Void, Put(c, n, [c[n] EXCEPT !.value = v]))

\* the error a throw statement raises when its message interpolates the value:
\* building the message comes first, and throws in its place on a symbol
ThrowNaming(e, v) == IF TemplateThrows(v) THEN ConversionError ELSE Throw(e)

\* ValidateAndSet with the update moved before the validation
ValidateAndSet_SetFirst(c, n, v, hasValidator) ==
    LET outcome == IF hasValidator THEN CallValidator(c[n].validator, v) ELSE "truthy"
        updated == Put(c, n, [c[n] EXCEPT !.value = v])
    IN  CASE outcome = "raise" -> Outcome(ThrowNaming("EvalError", v), updated)
          [] outcome = "falsy" -> Outcome(ThrowNaming("ValidationError", v), updated)
          [] outcome = "truthy" -> Outcome(Void, updated)

\* unnamed/part_001:112-133 and unnamed/part_002:82-99: validation, then the update
ValidateAndSet(c, n, v, hasValidator) ==
    LET outcome == IF hasValidator THEN CallValidator(c[n].validator, v) ELSE "truthy"
    IN  CASE outcome = "raise" -> Outcome(ThrowNaming("EvalError", v), c)
          [] outcome = "falsy" -> Outcome(ThrowNaming("ValidationError", v), c)
          [] outcome = "truthy" -> Outcome(Void, Put(c, n, [c[n] EXCEPT !.value = v]))

\* setConfigStrict consulting the validator before it checks the type
setConfigStrict_ValidatorFirst(c, n, v) ==
    IF ~Has(c, n) THEN Outcome(Throw("ReferenceError"), c)
    ELSE LET out == ValidateAndSet(c, n, v, ValidatorTruthy(c[n].validator))
         IN  IF out.res.t = "throw" THEN out
             ELSE IF ~Includes(ExpectedTypes(c, n), TypeOf(v))
                  THEN Outcome(Throw("TypeError"), c)
                  ELSE out

\* unnamed/part_001:93-134
setConfigStrict(c, n, v) ==
    IF ~Has(c, n) THEN Outcome(Throw("ReferenceError"), c)
    ELSE IF ~Includes(ExpectedTypes(c, n), TypeOf(v))
         THEN Outcome(Throw("TypeError"), c)
         ELSE ValidateAndSet(c, n, v, ValidatorTruthy(c[n].validator))

\* unnamed/part_002:63-100
setConfigLenient(c, n, v) ==
    IF ~Has(c, n) THEN Outcome(Throw("ReferenceError"), c)
    ELSE IF ~Includes(ExpectedTypes(c, n), TypeOf(v))
         THEN Outcome(Throw("TypeError"), c)
         ELSE ValidateAndSet(c, n, v, TRUE)

\* the single-property form of the store's version
setConfig(c, n, v) ==
    CASE variant = "plain" -> setConfigPlain(c, n, v)
      [] variant = "flags" -> setConfigFlags(c, n, v)
      [] variant = "entries" -> setConfigEntries(c, n, v)
      [] variant = "strict" -> setConfigStrict(c, n, v)
      [] variant = "lenient" -> setConfigLenient(c, n, v)

\* the bulk form: Object.entries(mapping).forEach(setConfig), which the first
\* throw leaves; idx is the position of the pair that threw, 0 when none did
RECURSIVE setConfigEach(_, _, _)
setConfigEach(c, batch, i) ==
    IF i > Len(batch) THEN [res |-> Void, conf |-> c, idx |-> 0]
    ELSE LET one == setConfig(c, batch[i].name, batch[i].val)
         IN  IF one.res.t = "throw"
             THEN [res |-> one.res, conf |-> one.conf, idx |-> i]
             ELSE setConfigEach(one.conf, batch, i + 1)

\* a bulk form that undoes the pairs it applied when a later pair throws
setConfigBulk_Atomic(c, batch) ==
    LET out == setConfigEach(c, batch, 1)
    IN  IF out.idx > 0 THEN [out EXCEPT !.conf = c] ELSE out

\* src/index.ts:85-93, unnamed/part_001:83-91
setConfigBulk(c, batch) == setConfigEach(c, batch, 1)

(***************************************************************************)
(* getConfig(property) and getConfig()                                     *)
(***************************************************************************)
\* src/index.ts:157-163, unnamed/part_000:83-89
getConfig(c, n) ==
    IF ~Has(c, n) THEN Throw("ReferenceError") ELSE Ret(ValueAt(c, n))

\* a getConfig() that lists each property's default
getConfigAll_Defaults(c) ==
    [taken |-> TRUE, live |-> FALSE, touched |-> FALSE,
     frozen |-> variant # "plain",
     props |-> [n \in DOMAIN c |-> c[n].default]]

\* a getConfig() that hands out the store's own mapping
getConfigAll_Live(c) ==
    [taken |-> TRUE, live |-> TRUE, touched |-> FALSE,
     frozen |-> FALSE,
     props |-> [n \in DOMAIN c |-> c[n].value]]

\* src/index.ts:148-155 and unnamed/part_000:78-81: a new object with one
\* property per key of the mapping, holding the value. defineProperty makes
\* the properties read-only; the spread of "plain" makes them writable.
getConfigAll(c) ==
    [taken |-> TRUE, live |-> FALSE, touched |-> FALSE,
     frozen |-> variant # "plain",
     props |-> [n \in DOMAIN c |-> c[n].value]]

NoSnapshot ==
    [taken |-> FALSE, live |-> FALSE, touched |-> FALSE, frozen |-> FALSE,
     props |-> [n \in {} |-> "undefined"]]

\* what the caller reads in the snapshot it holds
SnapshotView ==
    IF snap.live THEN [n \in DOMAIN Store(1) |-> Store(1)[n].value] ELSE snap.props

(***************************************************************************)
(* The specifications and options the stores are built from                *)
(***************************************************************************)
\* what the caller of a validator-aware version declares for property a
DescriptorsA ==
    {Descriptor("''", TypesArray(<<"string">>), "lenPositive"),
     Descriptor("'str'", TypesArray(<<"string", "undefined", "symbol">>),
                "lenPositive"),
     Descriptor("'str'", TypesArray(<<"number">>), "undefined"),
     Descriptor("'str'", TypesArray(<<>>), "undefined"),
     Raw("false")}
\* what the caller declares for property a, per version
ItemsA(v) ==
    CASE v \in {"plain", "flags"} -> {Raw("false")}
      [] v = "entries" ->
            {Raw("false"),
             Descriptor("true", TypesArray(<<"string", "boolean">>), "undefined"),
             WithDefault(Descriptor("false", NoTypes, "undefined"), "true"),
             Descriptor("'str'", TypesArray(<<>>), "undefined"),
             Fields(TypesArray(<<"string">>), "undefined")}
      [] v = "lenient" -> DescriptorsA
      [] v = "strict" ->
            DescriptorsA \cup
            {Descriptor("'str'", TypesValue("null"), "undefined"),
             Descriptor("'str'", TypesValue("'string'"), "undefined"),
             Descriptor("'str'", TypesArray(<<"string", "<5>">>), "undefined"),
             Descriptor("'str'", NoTypes, "null"),
             Descriptor("'str'", NoTypes, "'v'")}
\* what the caller declares for property b, when it declares b
ItemsB(v) ==
    CASE v \in {"plain", "flags", "entries"} -> {Raw("''")}
      [] v \in {"strict", "lenient"} -> {Descriptor("''", NoTypes, "undefined")}

\* the specification objects: a alone, or a and b
SpecObjs(v) ==
    {[n \in {"a"} |-> ia] : ia \in ItemsA(v)}
    \cup {[n \in {"a", "b"} |-> IF n = "a" THEN ia ELSE ib] :
            ia \in ItemsA(v), ib \in ItemsB(v)}

\* the values the caller writes to a store of version v
WriteVals(v) ==
    CASE v = "plain" -> {"false", "true", "2", "'str'", "fn"}
      [] v \in {"flags", "entries"} -> {"false", "true", "2", "'str'"}
      [] v \in {"strict", "lenient"} ->
            {"undefined", "true", "2", "''", "'str'", "sym"}

\* the options each version's constructor reads (the others ignore them)
FlagsOf(v) ==
    CASE v = "flags" -> [add : BOOLEAN, diff : BOOLEAN]
      [] v = "entries" -> [add : BOOLEAN, diff : {FALSE}]
      [] OTHER -> [add : {FALSE}, diff : {FALSE}]

(***************************************************************************)
(* The caller's calls                                                      *)
(***************************************************************************)
Call(op, s, n, v, res, idx, batch) ==
    [op |-> op, store |-> s, name |-> n, val |-> v, res |-> res,
     idx |-> idx, batch |-> batch]

\* the mappings handed to the bulk form: sequences of name/value pairs in the
\* order Object.entries lists them, an object holding each key once
Pair(n, v) == [name |-> n, val |-> v]
BulkPairs ==
    {Pair("a", "'str'"), Pair("a", "2"), Pair("b", "'str'"), Pair("toString", "'str'")}
Batches ==
    {b \in UNION {[1..k -> BulkPairs] : k \in 0..MaxBulkLen} :
        \A i, j \in DOMAIN b : i # j => b[i].name # b[j].name}

\* the mapping of store 1 becomes c: a Map update, or for "plain" an update
\* of the record the store shares with the caller
WriteStore(c) ==
    IF variant = "plain"
    THEN /\ specObj' = [n \in DOMAIN c |-> Raw(c[n].value)]
         /\ conf' = conf
    ELSE /\ conf' = [conf EXCEPT ![1] = c]
         /\ specObj' = specObj

Init ==
    /\ variant \in Variants
    /\ flags \in FlagsOf(variant)
    /\ specObj \in SpecObjs(variant)
    /\ seeded = DOMAIN specObj
    /\ built = ConstructStatus(variant, specObj)
    /\ conf = [s \in Stores |-> Construct(variant, specObj)]
    /\ last = Call("new", 1, "a", "undefined", Void, 0, <<>>)
    /\ snap = NoSnapshot
    /\ dirty = FALSE

\* store1.setConfig(n, v)
SetConfig(n, v) ==
    /\ built = "ok"
    /\ LET out == setConfig(Store(1), n, v)
       IN  /\ WriteStore(out.conf)
           /\ last' = Call("set", 1, n, v, out.res, 0, <<>>)
           /\ dirty' = (dirty \/ out.res.t = "ret")
    /\ UNCHANGED <<variant, flags, seeded, built, snap>>

\* store1.setConfig(mapping)
SetConfigBulk(batch) ==
    /\ built = "ok"
    /\ LET out == setConfigBulk(Store(1), batch)
       IN  /\ WriteStore(out.conf)
           /\ last' = Call("bulk", 1, "a", "undefined", out.res, out.idx, batch)
           /\ dirty' = (dirty \/ out.conf # Store(1))
    /\ UNCHANGED <<variant, flags, seeded, built, snap>>

\* store.getConfig(n), on either store
GetConfig(s, n) ==
    /\ built = "ok"
    /\ last' = Call("get", s, n, "undefined", getConfig(Store(s), n), 0, <<>>)
    /\ UNCHANGED <<variant, flags, specObj, seeded, built, conf, snap, dirty>>

\* store1.getConfig()
GetConfigAll ==
    /\ built = "ok"
    /\ snap' = getConfigAll(Store(1))
    /\ last' = Call("getAll", 1, "a", "undefined", Ret("obj"), 0, <<>>)
    /\ dirty' = FALSE
    /\ UNCHANGED <<variant, flags, specObj, seeded, built, conf>>

\* the caller assigns snapshot[n] = v, or deletes snapshot[n] (v = Absent), on
\* the snapshot it holds: a read-only property keeps its value, a new key is
\* added, a writable one is overwritten or removed
MutateSnapshot(n, v) ==
    /\ snap.taken
    /\ last' = Call("mutSnap", 1, n, v, Void, 0, <<>>)
    /\ IF snap.live
       THEN /\ WriteStore(IF v = Absent
                          THEN [k \in DOMAIN Store(1) \ {n} |-> Store(1)[k]]
                          ELSE Put(Store(1), n, RawEntry(v)))
            /\ snap' = [snap EXCEPT !.touched = TRUE]
       ELSE /\ snap' =
                [snap EXCEPT
                   !.touched = TRUE,
                   !.props =
                      IF n \in DOMAIN snap.props /\ snap.frozen THEN snap.props
                      ELSE IF v = Absent
                      THEN [k \in DOMAIN snap.props \ {n} |-> snap.props[k]]
                      ELSE [k \in DOMAIN snap.props \cup {n} |->
                              IF k = n THEN v ELSE snap.props[k]]]
            /\ UNCHANGED <<specObj, conf>>
    /\ UNCHANGED <<variant, flags, seeded, built, dirty>>

\* the caller assigns spec[n] = v on the specification object it built the
\* stores from; "plain" reads that very object
MutateSpec(n, v) ==
    /\ specObj' = [k \in DOMAIN specObj \cup {n} |-> IF k = n THEN Raw(v) ELSE specObj[k]]
    /\ last' = Call("mutSpec", 1, n, v, Void, 0, <<>>)
    /\ dirty' = (dirty \/ variant = "plain")
    /\ UNCHANGED <<variant, flags, seeded, built, conf, snap>>

\* the caller writes and reads store 1
Next ==
    \/ \E n \in Names, v \in WriteVals(variant) : SetConfig(n, v)
    \/ \E batch \in Batches : SetConfigBulk(batch)
    \/ \E n \in Names : GetConfig(1, n)

Spec == Init /\ [][Next]_vars

\* the caller also uses the objects that cross the store's boundary: the
\* snapshot getConfig() returns, the specification object, and a second store
\* built from the same specification object
NextObjects ==
    \/ \E n \in {"a", "b"}, v \in {"true", "'str'"} : SetConfig(n, v)
    \/ \E s \in Stores, n \in {"a", "b"} : GetConfig(s, n)
    \/ GetConfigAll
    \/ \E n \in {"a", "b"}, v \in {"2", Absent} : MutateSnapshot(n, v)
    \/ MutateSpec("a", "2")

SpecObjects == Init /\ [][NextObjects]_vars

(***************************************************************************)
(* Claims                                                                  *)
(***************************************************************************)
\* the call that led to the current state wrote property n of store 1: a
\* single write that returned, or a pair of a bulk write that was applied
Wrote(call, n) ==
    \/ call.op = "set" /\ call.res.t = "ret" /\ call.name = n
    \/ /\ call.op = "bulk"
       /\ \E i \in 1..Len(call.batch) :
            call.batch[i].name = n /\ (call.idx = 0 \/ i < call.idx)

\* the kinds a known property accepts, as a set
AcceptedKinds(c, n) ==
    IF variant \in {"plain", "flags"} THEN {TypeOf(ValueAt(c, n))}
    ELSE {c[n].types[i] : i \in 1..Len(c[n].types)}

\* C1: round trip. In the versions that keep a Map of their own, when
\* setConfig(n, v) returns, getConfig(n) returns v, and whatever getConfig(n)
\* returns stays the same over every call that is not a successful write of n.
C1_RoundTrip ==
    [][variant # "plain" =>
        /\ (last'.op = "set" /\ last'.res.t = "ret")
              => getConfig(Store(1)', last'.name) = Ret(last'.val)
        /\ \A n \in Names :
              ~Wrote(last', n) => getConfig(Store(1)', n) = getConfig(Store(1), n)]_vars

\* C1 witness: a write of true over the seeded false returned, and the entry
\* holds true
C1_Witness ==
    /\ variant = "entries"
    /\ last.op = "set" /\ last.res.t = "ret" /\ last.name = "a" /\ last.val = "true"
    /\ specObj["a"].value = "false"
    /\ getConfig(Store(1), "a") = Ret("true")

\* C2: in the versions without validators, with type-mismatch admission
\* disabled, setConfig(n, v) on a known property n throws a TypeError exactly
\* when the kind of v is not among the kinds n accepts.
C2_TypeErrorIff ==
    [][(/\ variant \in {"plain", "flags", "entries"}
        /\ ~flags.diff
        /\ last'.op = "set"
        /\ Has(Store(1), last'.name))
        => (last'.res = Throw("TypeError")
              <=> TypeOf(last'.val) \notin AcceptedKinds(Store(1), last'.name))]_vars

\* C2 witness: a property declared with two kinds took a value of the kind
\* its seed did not have
C2_Witness ==
    /\ variant = "entries"
    /\ last.op = "set" /\ last.res = Void /\ last.name = "a"
    /\ Store(1)["a"].types = <<"string", "boolean">>
    /\ TypeOf(specObj["a"].value) = "boolean"
    /\ TypeOf(last.val) = "string"

\* C3: getConfig(n) throws a ReferenceError for every name n that was not
\* present at construction, and returns a value only for keys of the store.
C3_GetUnknownRaises ==
    last.op = "get" =>
        /\ last.name \notin seeded => last.res = Throw("ReferenceError")
        /\ last.res.t = "ret" => last.name \in DOMAIN Store(last.store)

\* C4: in the version of src/index.ts, setConfig(n, v) on an unknown name
\* throws a ReferenceError and leaves the store as it was when admission is
\* disabled; when it is enabled it returns and adds the entry
\* {types: [kind(v)], default: v, value: v}, and a later write to that
\* property of a value of another kind throws a TypeError.
C4_UnknownProperty ==
    [][(variant = "entries" /\ last'.op = "set") =>
        /\ (~Has(Store(1), last'.name) /\ ~flags.add)
              => last'.res = Throw("ReferenceError") /\ Store(1)' = Store(1)
        /\ (~Has(Store(1), last'.name) /\ flags.add)
              => /\ last'.res = Void
                 /\ DOMAIN Store(1)' = DOMAIN Store(1) \cup {last'.name}
                 /\ Store(1)'[last'.name] =
                       [types |-> <<TypeOf(last'.val)>>, default |-> last'.val,
                        value |-> last'.val, validator |-> Absent]
                 /\ \A k \in DOMAIN Store(1) : Store(1)'[k] = Store(1)[k]
        /\ (/\ last'.name \in DOMAIN Store(1) \ seeded
            /\ TypeOf(last'.val) # TypeOf(Store(1)[last'.name].default))
              => last'.res = Throw("TypeError")]_vars

\* C4 witness: a property added by a write refused a value of another kind
C4_Witness ==
    /\ variant = "entries" /\ flags.add
    /\ last.op = "set" /\ last.res = Throw("TypeError")
    /\ last.name \in DOMAIN Store(1) \ seeded

\* the entry carries a validator function
HasValidator(e) == IsFunction(e.validator)

\* C5: validator contract of the validator-aware versions. For a known
\* property with validator f and a value v of an accepted kind (the type check
\* of C22 comes first), setConfig throws a ValidationError exactly when f(v)
\* is falsy, and an EvalError whenever f raises on v.
C5_ValidatorContract ==
    [][(/\ variant \in {"strict", "lenient"}
        /\ last'.op = "set"
        /\ Has(Store(1), last'.name)
        /\ HasValidator(Store(1)[last'.name])
        /\ TypeOf(last'.val) \in AcceptedKinds(Store(1), last'.name))
        => LET outcome == CallValidator(Store(1)[last'.name].validator, last'.val)
           IN  /\ last'.res = Throw("ValidationError") <=> outcome = "falsy"
               /\ outcome = "raise" => last'.res = Throw("EvalError")]_vars

\* C6: a single-property setConfig that throws leaves the mapping of the
\* store as it was: the same keys, and every field of every entry unchanged.
C6_FailedWriteKeepsStore ==
    [][(last'.op = "set" /\ last'.res.t = "throw") => Store(1)' = Store(1)]_vars

\* C6 witness: a write was refused by the validator of the property
C6_Witness ==
    /\ variant = "strict"
    /\ last.op = "set" /\ last.res = Throw("ValidationError")
    /\ HasValidator(Store(1)[last.name])

\* the entry of name n is the same in mappings c and d, or in neither
SameEntry(c, d, n) ==
    /\ n \in DOMAIN c <=> n \in DOMAIN d
    /\ n \in DOMAIN c => c[n] = d[n]

\* C7: a bulk setConfig applies its pairs in order as single writes. With k
\* the position of the first pair whose single write throws (none: k = 0),
\* the call ends with that pair's error, the pairs before k are in the store,
\* the pairs from k on and every other property are as before the call.
C7_BulkNotAtomic ==
    [][last'.op = "bulk" =>
        LET b == last'.batch
            k == last'.idx
        IN  /\ k = 0 => last'.res = Void
            /\ k > 0 => /\ last'.res.t = "throw"
                        /\ last'.res = setConfig(Store(1), b[k].name, b[k].val).res
            /\ \A i \in 1..Len(b) :
                 IF k = 0 \/ i < k
                 THEN /\ setConfig(Store(1), b[i].name, b[i].val).res = Void
                      /\ getConfig(Store(1)', b[i].name) = Ret(b[i].val)
                 ELSE SameEntry(Store(1)', Store(1), b[i].name)
            /\ \A n \in Names :
                 (\A i \in 1..Len(b) : b[i].name # n)
                     => SameEntry(Store(1)', Store(1), n)]_vars

\* C7 witness: the second pair threw and the first pair's new value stayed
C7_Witness ==
    /\ variant = "entries"
    /\ last.op = "bulk" /\ last.idx = 2 /\ last.res.t = "throw"
    /\ last.batch[1] = Pair("b", "'str'")
    /\ specObj["b"].value = "''"
    /\ getConfig(Store(1), "b") = Ret("'str'")

\* the value of every property of store s
ValuesOf(s) == [n \in DOMAIN Store(s) |-> Store(s)[n].value]

\* C8: getConfig() returns an object whose own properties are the names in
\* the store at the call, each holding that property's current value, and a
\* later setConfig does not change the object.
C8_SnapshotOfValues ==
    [][/\ last'.op = "getAll" => snap'.taken /\ SnapshotView' = ValuesOf(1)
       /\ last'.op = "set" => SnapshotView' = SnapshotView]_vars

\* C8 witness: after a write that returned, the snapshot taken before it
\* still shows the old value
C8_Witness ==
    /\ variant = "entries"
    /\ snap.taken /\ ~snap.touched
    /\ last.op = "set" /\ last.res = Void /\ last.name = "a"
    /\ SnapshotView["a"] # ValuesOf(1)["a"]

\* C9: a getConfig() that follows another with no write in between returns
\* the same properties, and the caller's assignments to and deletions from a
\* snapshot change nothing that getConfig() or getConfig(n) returns afterwards.
C9_SnapshotIsCopy ==
    [][/\ (last'.op = "getAll" /\ snap.taken /\ ~snap.touched /\ ~dirty)
            => SnapshotView' = SnapshotView
       /\ last'.op = "mutSnap"
            => /\ \A s \in Stores, n \in Names :
                    getConfig(Store(s)', n) = getConfig(Store(s), n)
               /\ ValuesOf(1)' = ValuesOf(1)]_vars

\* C9 witness: the caller changed the snapshot it holds, which now differs
\* from the values in the store
C9_Witness ==
    /\ last.op = "mutSnap" /\ snap.touched
    /\ SnapshotView # ValuesOf(1)
    /\ ~dirty

\* C10: a setConfig on store 1 changes nothing that the getConfig of store 2
\* returns, and an assignment to the specification object after construction
\* changes nothing that either store returns.
C10_StoreOwnsMapping ==
    [][/\ last'.op = "set"
            => \A n \in Names : getConfig(Store(2)', n) = getConfig(Store(2), n)
       /\ last'.op = "mutSpec"
            => \A s \in Stores, n \in Names :
                  getConfig(Store(s)', n) = getConfig(Store(s), n)]_vars

\* C11: with type-mismatch admission disabled, in every state reached by
\* construction and any sequence of setConfig calls, the kind of every
\* entry's current value is among the kinds the entry accepts.
C11_ValueKindInTypes ==
    (built = "ok" /\ ~flags.diff) =>
        \A n \in DOMAIN Store(1) :
            TypeOf(Store(1)[n].value) \in AcceptedKinds(Store(1), n)

\* the descriptor gives a types field that is a non-empty array of strings
GivesValidTypes(item) ==
    /\ ~item.raw /\ item.hasValue
    /\ IsArray(item.types)
    /\ item.types.elems # <<>>
    /\ EveryString(item.types.elems)

\* C12: in the versions that keep entries, every entry's types is non-empty
\* in every reachable state, and right after construction the types of a
\* seeded entry is the supplied types when that is a non-empty array of
\* strings, and otherwise the one kind of the initial value.
C12_TypesNonEmpty ==
    (variant \in {"entries", "strict", "lenient"} /\ built = "ok") =>
        \A n \in DOMAIN Store(1) :
            /\ Store(1)[n].types # <<>>
            /\ last.op = "new" =>
                  Store(1)[n].types =
                     IF GivesValidTypes(specObj[n]) THEN specObj[n].types.elems
                     ELSE <<TypeOf(Store(1)[n].value)>>

\* C13: in the strict version, construction ends with a SetupError, and no
\* store is built, whenever a descriptor supplies a types field that is not
\* an array of strings or that does not include the kind of its value.
C13_StrictTypesSetupError ==
    variant = "strict" =>
        \A n \in DOMAIN specObj :
            LET item == specObj[n]
            IN  (/\ ~item.raw
                 /\ item.types # NoTypes
                 /\ \/ ~IsArray(item.types)
                    \/ ~EveryString(item.types.elems)
                    \/ ~Includes(item.types.elems, TypeOf(item.value)))
                => built = "SetupError"

\* C14: in the strict version, a callable validator is kept, an undefined
\* one is replaced by a predicate that accepts everything, and every other
\* supplied validator (null, 0, '' and false included) makes construction end
\* with a SetupError.
C14_StrictValidatorSetup ==
    variant = "strict" =>
        \A n \in DOMAIN specObj :
            LET item == specObj[n]
                f == item.validator
            IN  ~item.raw =>
                  /\ (built = "ok" /\ IsFunction(f)) => Store(1)[n].validator = f
                  /\ (built = "ok" /\ f = "undefined") =>
                        \/ ~ValidatorTruthy(Store(1)[n].validator)
                        \/ \A v \in Val :
                              CallValidator(Store(1)[n].validator, v) = "truthy"
                  /\ (~IsFunction(f) /\ f # "undefined") => built = "SetupError"

\* C15: seeding in the version of src/index.ts. Right after construction the
\* store has one entry per name of the specification. For a descriptor object
\* with a value field the entry's value is that field, its types the array
\* given as types or else the kind of the value, its default the declared
\* default or else the value; for any other item the item is the value and
\* the default, and its kind the only type. getConfig(name) returns the value.
C15_Seeding ==
    (variant = "entries" /\ last.op = "new") =>
        /\ DOMAIN Store(1) = DOMAIN specObj
        /\ \A n \in DOMAIN specObj :
             LET item == specObj[n]
                 e == Store(1)[n]
                 whole == IF item.raw THEN item.value ELSE "obj"
             IN  /\ IF ~item.raw /\ item.hasValue
                    THEN /\ e.value = item.value
                         /\ e.types = IF item.types.tag = "array"
                                      THEN item.types.elems
                                      ELSE <<TypeOf(item.value)>>
                         /\ e.default = IF item.hasDefault THEN item.default
                                                           ELSE item.value
                    ELSE /\ e.value = whole
                         /\ e.types = <<TypeOf(whole)>>
                         /\ e.default = whole
                 /\ getConfig(Store(1), n) = Ret(e.value)

\* C15 witness: a store was built from a descriptor that declares a default
\* other than its value, and holds both
C15_Witness ==
    /\ variant = "entries" /\ last.op = "new"
    /\ specObj["a"].hasDefault /\ specObj["a"].default # specObj["a"].value
    /\ Store(1)["a"].default = "true"
    /\ getConfig(Store(1), "a") = Ret("false")

\* C16: a validator-aware store built from {a: false} holds value false with
\* types {boolean} for a: right after construction getConfig('a') returns
\* false, setConfig('a', 2) throws a TypeError, and setConfig('a', true)
\* returns, after which getConfig('a') returns true.
C16_RawValueSeed ==
    [][(/\ variant \in {"strict", "lenient"}
        /\ built = "ok"
        /\ last.op = "new"
        /\ specObj["a"] = Raw("false"))
        => /\ Store(1)["a"].value = "false"
           /\ Store(1)["a"].types = <<"boolean">>
           /\ (last'.op = "get" /\ last'.name = "a") => last'.res = Ret("false")
           /\ (last'.op = "set" /\ last'.name = "a" /\ last'.val = "2")
                 => last'.res = Throw("TypeError")
           /\ (last'.op = "set" /\ last'.name = "a" /\ last'.val = "true")
                 => /\ last'.res = Void
                    /\ getConfig(Store(1)', "a") = Ret("true")]_vars

\* C17: in the version with the allowDifferentTypeOnConfig option, a
\* setConfig(n, v) on a known property n returns and getConfig(n) then returns
\* v, whatever the kind of v, when the option is enabled; when it is not, the
\* call throws a TypeError exactly when the kind of v differs from the kind of
\* the current value.
C17_AllowDifferentType ==
    [][(/\ variant = "flags"
        /\ last'.op = "set"
        /\ Has(Store(1), last'.name))
        => IF flags.diff
           THEN /\ last'.res = Void
                /\ getConfig(Store(1)', last'.name) = Ret(last'.val)
           ELSE last'.res = Throw("TypeError")
                   <=> TypeOf(last'.val) # TypeOf(ValueAt(Store(1), last'.name))]_vars

\* C17 witness: with the option enabled, a number was written over the seeded
\* boolean and is read back
C17_Witness ==
    /\ variant = "flags" /\ flags.diff
    /\ last.op = "set" /\ last.res = Void /\ last.name = "a" /\ last.val = "2"
    /\ TypeOf(specObj["a"].value) = "boolean"
    /\ getConfig(Store(1), "a") = Ret("2")

\* C18: in the strict version, the message of every error construction,
\* getConfig or setConfig raises identifies the offending property name; the
\* message of a TypeError also gives the expected types, that of a
\* ValidationError or an EvalError the offending value.
C18_ErrorMessages ==
    variant = "strict" =>
        /\ built = "SetupError" => "property" \in MessageOf("SetupError")
        /\ last.res.t = "throw" =>
              /\ "property" \in last.res.msg
              /\ last.res.v = "TypeError" => "types" \in last.res.msg
              /\ last.res.v \in {"ValidationError", "EvalError"}
                    => "value" \in last.res.msg

\* C19: in the validator-aware versions, every entry that has a validator
\* holds a value on which that validator returns a truthy result.
C19_ValidatorSatisfied ==
    (variant \in {"strict", "lenient"} /\ built = "ok") =>
        \A n \in DOMAIN Store(1) :
            HasValidator(Store(1)[n])
                => CallValidator(Store(1)[n].validator, Store(1)[n].value) = "truthy"

\* C20: a setConfig(n, v) that returns, on a property n the store holds,
\* changes the value of n's entry to v and nothing else: the entry's types,
\* default and validator, the keys of the store and every other entry are as
\* before the call.
C20_SetChangesOnlyValue ==
    [][(/\ last'.op = "set"
        /\ last'.res = Void
        /\ last'.name \in DOMAIN Store(1))
        => /\ DOMAIN Store(1)' = DOMAIN Store(1)
           /\ Store(1)'[last'.name] = [Store(1)[last'.name] EXCEPT !.value = last'.val]
           /\ \A k \in DOMAIN Store(1) \ {last'.name} : Store(1)'[k] = Store(1)[k]]_vars

\* C20 witness: a write the validator accepted replaced the seeded value and
\* left the entry's types and validator in place
C20_Witness ==
    /\ variant = "strict"
    /\ last.op = "set" /\ last.res = Void /\ last.name = "a"
    /\ specObj["a"].value = "''"
    /\ Store(1)["a"] = Entry(<<"string">>, Absent, "'str'", "lenPositive")

\* C21: in the versions that keep a Map, no getConfig or setConfig call
\* removes a name from the store; a name is added only by a setConfig on a
\* name the store did not hold while unknown-property admission is enabled;
\* with admission disabled the names of the store are those seeded at
\* construction.
C21_KeysOnlyGrow ==
    [][variant # "plain" =>
        /\ DOMAIN Store(1) \subseteq DOMAIN Store(1)'
        /\ \A n \in DOMAIN Store(1)' \ DOMAIN Store(1) :
              flags.add /\ last'.op \in {"set", "bulk"} /\ Wrote(last', n)
        /\ ~flags.add => DOMAIN Store(1) = seeded /\ DOMAIN Store(1)' = seeded]_vars

\* C21 witness: with admission enabled, a write to a name that was not
\* seeded returned and the store holds that name beside the seeded ones
C21_Witness ==
    /\ variant \in {"flags", "entries"} /\ flags.add
    /\ last.op = "set" /\ last.res = Void
    /\ last.name \notin seeded
    /\ DOMAIN Store(1) = seeded \cup {last.name}

\* C22: in the validator-aware versions, setConfig(n, v) on an unknown name
\* throws a ReferenceError whatever v is, and on a known property whose types
\* do not include the kind of v it throws the TypeError of the type check,
\* never a ValidationError or an EvalError, whatever the validator would
\* return or raise on v; the store is left as it was.
C22_CheckOrder ==
    [][(variant \in {"strict", "lenient"} /\ last'.op = "set") =>
        /\ ~Has(Store(1), last'.name) => last'.res = Throw("ReferenceError")
        /\ (/\ Has(Store(1), last'.name)
            /\ TypeOf(last'.val) \notin AcceptedKinds(Store(1), last'.name))
              => /\ last'.res = Throw("TypeError")
                 /\ last'.res.v \notin {"ValidationError", "EvalError"}
                 /\ Store(1)' = Store(1)]_vars

\* C22 witness: a value of a kind the property does not accept, on which the
\* property's validator would raise, was refused with the TypeError of the
\* type check
C22_Witness ==
    /\ variant = "strict"
    /\ last.op = "set" /\ last.res = Throw("TypeError")
    /\ last.name \in DOMAIN Store(1)
    /\ HasValidator(Store(1)[last.name])
    /\ CallValidator(Store(1)[last.name].validator, last.val) = "raise"

====
